---------------------------- MODULE Spec2Model ----------------------------
(***************************************************************************)
(* Model of the mission-control live-metrics generator                     *)
(* (scripts/generate-live-data.js and its dataVersion-2 successor).        *)
(*                                                                         *)
(* Time is measured in ticks of two minutes (TicksPerHour ticks per hour), *)
(* so that one tenth of an hour is three ticks and Math.round never sees a *)
(* tie.  Modification times are positive tick counts; 0 stands for "no     *)
(* modification time observed".  A JavaScript null is the empty sequence   *)
(* and a present value v is the one-element sequence <<v>>.                *)
(***************************************************************************)
EXTENDS Integers, Sequences, FiniteSets, TLC

VARIABLES
  \* scoring engine, applied to drawn inputs
  scPc, scKind, scHours, scTodos, scCommits, scStatus, scProgress, scRoi,
  \* checklist parser
  tdPc, tdCall, tdArg, tdDir, tdText, tdOut,
  \* version-control activity probe
  gitPc, gitMarker, gitI, gitCounts, gitQueries, gitOk, gitResult,
  \* filesystem scanner
  wPc, wVersion, wMaxFiles, wRootReadable, wNodes, wStack, wEntries,
  wLatest, wCount, wCapped, wCounted, wLastStep, wPrev,
  \* one run of the generator
  gPc, gDirs, gPolyTodo, gGateway, gIdx, gProjects, gStatusFile, gPolyLatest,
  gData, gFile, gError,
  \* two runs of the generator against one workspace
  twWs, twClock, twOut, twChanged

scoreVars == <<scPc, scKind, scHours, scTodos, scCommits, scStatus, scProgress, scRoi>>

todoVars == <<tdPc, tdCall, tdArg, tdDir, tdText, tdOut>>

gitVars == <<gitPc, gitMarker, gitI, gitCounts, gitQueries, gitOk, gitResult>>

walkVars == <<wPc, wVersion, wMaxFiles, wRootReadable, wNodes, wStack, wEntries,
              wLatest, wCount, wCapped, wCounted, wLastStep, wPrev>>

genVars == <<gPc, gDirs, gPolyTodo, gGateway, gIdx, gProjects, gStatusFile, gPolyLatest,
             gData, gFile, gError>>

twinVars == <<twWs, twClock, twOut, twChanged>>

vars == <<scoreVars, todoVars, gitVars, walkVars, genVars, twinVars>>

-----------------------------------------------------------------------------
(* Bounds of the model *)

MaxCommits == 1000      \* largest commits7d drawn for the scoring engine
MaxTodoTotal == 3       \* largest checklist size drawn for the scoring engine
MaxPieces == 4          \* a checklist text is at most this many pieces long
MaxTodoFiles == 2       \* a project directory lists at most this many files
MaxOutLines == 2        \* a command prints at most this many lines
MaxEntries == 3         \* a scanned tree has at most this many entries
MaxCap == 2             \* the visited-count cap (maxFiles) is drawn from 1..MaxCap
Epoch0 == 1000          \* the clock reading of the first generator run, in ticks
MaxTick == 1            \* the clock advances at most this many ticks between two runs
MaxTwinDirs == 2        \* project directories present when the generator is run twice

-----------------------------------------------------------------------------
(* Helpers for JavaScript values *)

Null == <<>>
Some(v) == <<v>>
IsNull(x) == x = Null
Val(x) == x[1]

Max2(a, b) == IF a >= b THEN a ELSE b
Min2(a, b) == IF a <= b THEN a ELSE b

\* Math.round(num / den) for num >= 0, den > 0: round half up
RoundDiv(num, den) == (2 * num + den) \div (2 * den)

TicksPerHour == 30

-----------------------------------------------------------------------------
(* Scoring engine *)

\* classifyFreshness(hours); hours is null or a number of ticks
classifyFreshness(hours) ==
  IF IsNull(hours) THEN "unknown"
  ELSE IF Val(hours) < 6 * TicksPerHour THEN "hot"
  ELSE IF Val(hours) < 24 * TicksPerHour THEN "warm"
  ELSE "cold"

\* todos.total ? Math.round((todos.done / todos.total) * 100) : null
completionFromTodos(todos) ==
  IF todos.total # 0 THEN Some(RoundDiv(100 * todos.done, todos.total)) ELSE Null

freshnessFloor(freshness) ==
  IF freshness = "hot" THEN 70 ELSE IF freshness = "warm" THEN 52 ELSE 34

freshnessBonus(freshness) ==
  IF freshness = "hot" THEN 15 ELSE IF freshness = "warm" THEN 7 ELSE 2

\* the maximum without the freshness floor
progressOf_NoFloor(todos, freshness, commits7d) ==
  LET c == completionFromTodos(todos)
  IN Max2(IF IsNull(c) THEN 0 ELSE Val(c), Min2(85, commits7d * 8))

progressOf(todos, freshness, commits7d) ==
  LET c == completionFromTodos(todos)
  IN Max2(Max2(IF IsNull(c) THEN 0 ELSE Val(c), freshnessFloor(freshness)),
          Min2(85, commits7d * 8))

\* Math.round(progress * 0.55 + commits7d * 3 + bonus), before the clamp
roiRaw(progress, freshness, commits7d) ==
  RoundDiv(progress * 55 + (commits7d * 3 + freshnessBonus(freshness)) * 100, 100)

\* the clamp without its upper bound
roiScoreOf_NoCeiling(progress, freshness, commits7d) ==
  Max2(10, roiRaw(progress, freshness, commits7d))

roiScoreOf(progress, freshness, commits7d) ==
  Max2(10, Min2(99, roiRaw(progress, freshness, commits7d)))

\* progress of the prepended Polymarket Bot project
polyProgress(counts) ==
  IF counts.total # 0 THEN RoundDiv(100 * counts.done, counts.total) ELSE 0

polyRoi(counts) == IF counts.open > 0 THEN 78 ELSE 64

-----------------------------------------------------------------------------
(* Checklist parser.  A text is a sequence of one-character strings. *)

\* ECMAScript LineTerminator, after which ^ matches under the m flag
IsLineTerminator(c) == c \in {"\n", "\r"}

AtLineStart(md, i) == i = 1 \/ IsLineTerminator(md[i - 1])

\* /^- \[[ xX]\]/m matches at position i, with the box character in boxChars
BoxAt(md, i, boxChars) ==
  /\ AtLineStart(md, i)
  /\ i + 4 <= Len(md)
  /\ md[i] = "-" /\ md[i + 1] = " " /\ md[i + 2] = "["
  /\ md[i + 3] \in boxChars
  /\ md[i + 4] = "]"

\* (md.match(re) || []).length for the global, multiline checkbox pattern
MatchCount(md, boxChars) ==
  Cardinality({ i \in 1..Len(md) : BoxAt(md, i, boxChars) })

\* countTodoItems with the done pattern not anchored at the line start
countTodoItems_Unanchored(mdArg) ==
  LET md == IF IsNull(mdArg) THEN <<>> ELSE Val(mdArg)
      total == MatchCount(md, {" ", "x", "X"})
      done == Cardinality({ i \in 1..(Len(md) - 4) :
                              SubSeq(md, i, i + 4) \in { <<"-", " ", "[", "x", "]">>,
                                                          <<"-", " ", "[", "X", "]">> } })
  IN [total |-> total, done |-> done, open |-> Max2(0, total - done)]

\* countTodoItems(md = ''): the argument is null when it is absent
countTodoItems(mdArg) ==
  LET md == IF IsNull(mdArg) THEN <<>> ELSE Val(mdArg)
      total == MatchCount(md, {" ", "x", "X"})
      done == MatchCount(md, {"x", "X"})
  IN [total |-> total, done |-> done, open |-> Max2(0, total - done)]

\* String.prototype.toLowerCase on the characters file names are made of
Lower(c) ==
  CASE c = "T" -> "t" [] c = "O" -> "o" [] c = "D" -> "d" [] c = "M" -> "m"
    [] c = "A" -> "a" [] c = "S" -> "s" [] c = "K" -> "k" [] OTHER -> c

LowerAll(s) == [i \in 1..Len(s) |-> Lower(s[i])]

Contains(s, sub) ==
  \E i \in 1..(Len(s) - Len(sub) + 1) : SubSeq(s, i, i + Len(sub) - 1) = sub

EndsWith(s, suf) ==
  Len(s) >= Len(suf) /\ SubSeq(s, Len(s) - Len(suf) + 1, Len(s)) = suf

\* /todo|tasks|checklist/i.test(n) && /\.md$/i.test(n)
IsChecklistFile(n) ==
  /\ \/ Contains(LowerAll(n), <<"t", "o", "d", "o">>)
     \/ Contains(LowerAll(n), <<"t", "a", "s", "k", "s">>)
     \/ Contains(LowerAll(n), <<"c", "h", "e", "c", "k", "l", "i", "s", "t">>)
  /\ EndsWith(LowerAll(n), <<".", "m", "d">>)

\* readText(file): the content, or '' when the read throws
readText(content) == IF IsNull(content) THEN <<>> ELSE Val(content)

RECURSIVE JoinLines(_)
\* Array.prototype.join('\n')
JoinLines(texts) ==
  IF Len(texts) = 0 THEN <<>>
  ELSE IF Len(texts) = 1 THEN texts[1]
  ELSE texts[1] \o <<"\n">> \o JoinLines(Tail(texts))

\* files.filter(...).map(f => readText(...)); a listing is a sequence of
\* [name, content] where content is null for a file that cannot be read
ChecklistTexts(listing) ==
  LET keep == SelectSeq(listing, LAMBDA f : IsChecklistFile(f.name))
  IN [i \in 1..Len(keep) |-> readText(keep[i].content)]

\* countTodosInProject(dir): dirListing is null when readdirSync throws
countTodosInProject(dirListing) ==
  IF IsNull(dirListing) THEN [total |-> 0, done |-> 0, open |-> 0]
  ELSE countTodoItems(Some(JoinLines(ChecklistTexts(Val(dirListing)))))

-----------------------------------------------------------------------------
(* Command execution and the version-control activity probe.  The text a   *)
(* command prints is a sequence of lines; "" is a blank line.              *)

RECURSIVE TrimHead(_)
TrimHead(lines) ==
  IF Len(lines) > 0 /\ Head(lines) = "" THEN TrimHead(Tail(lines)) ELSE lines

RECURSIVE TrimTail(_)
TrimTail(lines) ==
  IF Len(lines) > 0 /\ lines[Len(lines)] = ""
  THEN TrimTail(SubSeq(lines, 1, Len(lines) - 1)) ELSE lines

\* String.prototype.trim on a text made of whole lines
Trim(lines) == TrimTail(TrimHead(lines))

\* safeExec without its catch: a failing command throws
safeExec_Rethrow(run) == [threw |-> ~run.ok, ok |-> run.ok, out |-> Trim(run.lines)]

\* safeExec(cmd, cwd): run is what execSync does, [ok, lines]: on success
\* lines is stdout, on failure stdout followed by stderr.  Nothing is thrown.
safeExec(run) == [threw |-> FALSE, ok |-> run.ok, out |-> Trim(run.lines)]

\* out.split(/\r?\n/).filter(Boolean)
NonBlank(lines) == SelectSeq(lines, LAMBDA l : l # "")

\* out.ok && out.out ? out.out.split(...).filter(Boolean).length : 0
bucketCount(res) == IF res.ok /\ res.out # <<>> THEN Len(NonBlank(res.out)) ELSE 0

\* auth.ok && auth.out ? new Set(...).size : 0
contributorCount(res) ==
  IF res.ok /\ res.out # <<>>
  THEN Cardinality({ NonBlank(res.out)[k] : k \in 1..Len(NonBlank(res.out)) }) ELSE 0

RECURSIVE SumSeq(_)
\* counts.reduce((a, b) => a + b, 0)
SumSeq(s) == IF Len(s) = 0 THEN 0 ELSE Head(s) + SumSeq(Tail(s))

\* result of getGit7DayActivity for a directory without a .git entry
noRepoActivity ==
  [commits7d |-> 0, trend |-> <<0, 0, 0, 0, 0, 0, 0>>, contributors7d |-> 0, confidence |-> "low"]

-----------------------------------------------------------------------------
(* Filesystem scanner.  A tree is a sequence of entries; entry i lies in   *)
(* the directory parent (0 is the scanned root, otherwise an earlier       *)
(* entry), and readdirSync lists a directory's entries in index order.     *)
(* version is the dataVersion of the generator the scanner belongs to:     *)
(* 1 for scripts/generate-live-data.js, 2 for its successor.  The two      *)
(* scanners differ in the names they skip and in the default of maxFiles   *)
(* (5000 and 7000), which is drawn from 1..MaxCap here.                    *)

\* scripts/generate-live-data.js: e.name === '.git' || e.name === 'node_modules'
SkipNamesV1 == {".git", "node_modules"}

\* successor: e.name === '.git' || e.name === 'node_modules' || e.name === '.next'
SkipNamesV2 == {".git", "node_modules", ".next"}

SkipNames(version) == IF version = 2 THEN SkipNamesV2 ELSE SkipNamesV1

\* fs.readdirSync(cur): the entries of directory cur in listing order
Children(nodes, cur) == SelectSeq([i \in 1..Len(nodes) |-> i], LAMBDA i : nodes[i].parent = cur)

\* does readdirSync(cur) succeed
Readable(nodes, rootReadable, cur) ==
  IF cur = 0 THEN rootReadable ELSE nodes[cur].isDir /\ nodes[cur].readable

\* the cap test with > for >=
capReached_Late(count, maxFiles) == count > maxFiles

\* if (count >= maxFiles) return {..., capped: true}
capReached(count, maxFiles) == count >= maxFiles

-----------------------------------------------------------------------------
(* The generator: per-project snapshot, Polymarket project, assembly *)

\* getGit7DayActivity(dir) as a function of what the directory holds: repo is
\* null without a .git entry, else the outcome of the seven bucket commands
\* (oldest first) and of the author command
getGit7DayActivity(repo) ==
  IF IsNull(repo) THEN noRepoActivity
  ELSE LET counts == [k \in 1..7 |-> bucketCount(safeExec(Val(repo).buckets[k]))]
       IN [commits7d |-> SumSeq(counts), trend |-> counts,
           contributors7d |-> contributorCount(safeExec(Val(repo).auth)),
           confidence |-> "high"]

\* iso(ms): null for 0, otherwise the timestamp
iso(ms) == IF ms # 0 THEN Some(ms) ELSE Null

\* Math.round(hours * 10) / 10, in tenths of an hour, for an age of dt ticks
roundTenths(dt) == RoundDiv(10 * dt, TicksPerHour)

\* p.name.replace(/[_-]/g, ' ').replace(/\b\w/g, c => c.toUpperCase())
displayName(id) ==
  CASE id = "mission-control-dashboard" -> "Mission Control Dashboard"
    [] id = "nightshift" -> "Nightshift"
    [] id = "overnight" -> "Overnight"
    [] id = "overnight_ops" -> "Overnight Ops"
    [] id = "papertrades" -> "Papertrades"

\* git.confidence === 'high' ? (todos.total ? 'high' : 'medium') : 'low'
projectConfidence(git, todos) ==
  IF git.confidence = "high" THEN (IF todos.total # 0 THEN "high" ELSE "medium") ELSE "low"

\* the callback of projectDirs.map: d is what the directory holds
\* ([snap, repo, listing]) and now the reading of Date.now()
scanProject(id, d, now) ==
  LET snap == d.snap
      freshnessHours == IF snap.latest # 0 THEN Some(now - snap.latest) ELSE Null
      freshness == classifyFreshness(freshnessHours)
      git == getGit7DayActivity(d.repo)
      todos == countTodosInProject(d.listing)
      progress == progressOf(todos, freshness, git.commits7d)
      roiScore == roiScoreOf(progress, freshness, git.commits7d)
  IN [id |-> id,
      name |-> displayName(id),
      latestUpdate |-> iso(snap.latest),
      fileSignals |-> Some([filesScanned |-> snap.count, scanCapped |-> snap.capped]),
      freshnessHours |-> IF IsNull(freshnessHours) THEN Null
                         ELSE Some(roundTenths(Val(freshnessHours))),
      health |-> freshness,
      progress |-> progress,
      roiScore |-> roiScore,
      confidence |-> projectConfidence(git, todos),
      trend7d |-> git.trend,
      timeline |-> <<"done", IF progress > 45 THEN "active" ELSE "queued",
                     IF progress > 72 THEN "active" ELSE "queued", "queued">>,
      stats |-> [roi |-> roiScore, commits7d |-> git.commits7d,
                 contributors7d |-> git.contributors7d, todoOpen |-> todos.open],
      action |-> "Close 1 highest ROI blocker first"]

\* the object literal of projects.unshift: latestUpdate and freshnessHours
\* are what the two existsSync/statSync expressions produced
polymarketProject(latestUpdate, freshnessHours, counts) ==
  [id |-> "polymarket",
   name |-> "Polymarket Bot",
   latestUpdate |-> latestUpdate,
   fileSignals |-> Null,
   freshnessHours |-> freshnessHours,
   health |-> IF counts.open > 0 THEN "active" ELSE "stable",
   progress |-> polyProgress(counts),
   roiScore |-> polyRoi(counts),
   confidence |-> "high",
   trend7d |-> <<2, 3, 1, 4, 2, 2, 3>>,
   timeline |-> <<"done", "active", "queued", "queued">>,
   stats |-> [todoOpen |-> counts.open, todoDone |-> counts.done,
              total |-> counts.total, roi |-> polyRoi(counts)],
   action |-> "Close highest-risk open TODO first"]

\* existsSync(f) ? statSync(f).mtimeMs : 0, then iso(); statusFile is null
\* for a missing STATUS.md, else its mtime
polyLatestUpdate(statusFile) == iso(IF IsNull(statusFile) THEN 0 ELSE Val(statusFile))

\* existsSync(f) ? Math.round(((Date.now() - mtimeMs) / 36e5) * 10) / 10 : null
polyFreshnessHours(statusFile, now) ==
  IF IsNull(statusFile) THEN Null ELSE Some(roundTenths(now - Val(statusFile)))

\* the gateway probe: /Runtime:\s*running/i, /RPC probe:\s*ok/i and
\* /last run time\s+([^\r\n]+)/i on the output of safeExec
parseGateway(res) ==
  [running |-> \E k \in 1..Len(res.out) : res.out[k] = "Runtime: running",
   rpcOk |-> \E k \in 1..Len(res.out) : res.out[k] = "RPC probe: ok",
   lastRun |-> IF \E k \in 1..Len(res.out) : res.out[k] = "last run time 09:00"
               THEN Some("09:00") ELSE Null]

RECURSIVE InsertByRoi(_, _)
\* place p behind every element whose roiScore is not smaller
InsertByRoi(p, sorted) ==
  IF Len(sorted) = 0 THEN <<p>>
  ELSE IF Head(sorted).roiScore >= p.roiScore
       THEN <<Head(sorted)>> \o InsertByRoi(p, Tail(sorted))
       ELSE <<p>> \o sorted

RECURSIVE sortByRoi(_)
\* [...projects].sort((a, b) => (b.roiScore || 0) - (a.roiScore || 0)): the
\* sort is stable, so equal scores keep their order in projects
sortByRoi(projects) ==
  IF Len(projects) = 0 THEN <<>>
  ELSE InsertByRoi(projects[Len(projects)],
                   sortByRoi(SubSeq(projects, 1, Len(projects) - 1)))

\* the last three of the ranking instead of the first three
topThree_Tail(ranked) == SubSeq(ranked, Max2(1, Len(ranked) - 2), Len(ranked))

\* ranked.slice(0, 3)
topThree(ranked) == SubSeq(ranked, 1, Min2(3, Len(ranked)))

\* a fixed tag on the 'Top ROI Project' digest entry
topConfidence_Fixed(top) == "high"

\* confidence of the 'Top ROI Project' digest entry
topConfidence(top) == IF Len(top) > 0 THEN top[1].confidence ELSE "low"

\* confidence of the 'Gateway Last Task Run' digest entry
lastRunConfidence(gw) == IF IsNull(gw.lastRun) THEN "low" ELSE "high"

\* the data object of lines 199-265
assemble(projects, gw, now) ==
  LET ranked == sortByRoi(projects)
      top == topThree(ranked)
  IN [generatedAt |-> now,
      dataVersion |-> 2,
      digest |-> <<
        [title |-> "Gateway Runtime",
         value |-> IF gw.running THEN "Running" ELSE "Stopped",
         delta |-> IF gw.rpcOk THEN "RPC healthy" ELSE "RPC uncertain",
         confidence |-> "high", timestamp |-> Some(now)],
        [title |-> "Top ROI Project",
         value |-> IF Len(top) > 0 THEN Some(<<top[1].name, top[1].roiScore>>) ELSE Null,
         delta |-> "Prioritize this in first operator pass",
         confidence |-> topConfidence(top),
         timestamp |-> IF Len(top) > 0 /\ ~IsNull(top[1].latestUpdate)
                       THEN top[1].latestUpdate ELSE Some(now)],
        [title |-> "Projects Hot/Warm",
         value |-> <<Len(SelectSeq(projects,
                       LAMBDA p : p.health \in {"hot", "warm", "active", "stable"})),
                     Len(projects)>>,
         delta |-> "Cross-project execution energy",
         confidence |-> "medium", timestamp |-> Some(now)],
        [title |-> "Gateway Last Task Run",
         value |-> gw.lastRun,
         delta |-> "Scheduled task telemetry",
         confidence |-> lastRunConfidence(gw), timestamp |-> Some(now)] >>,
      priorityModules |->
        [k \in 1..Len(top) |->
           [rank |-> k, id |-> top[k].id, name |-> top[k].name,
            roiScore |-> top[k].roiScore, progress |-> top[k].progress,
            confidence |-> top[k].confidence, latestUpdate |-> top[k].latestUpdate,
            note |-> top[k].action]],
      projects |-> projects]

\* projectsOf with the Polymarket latestUpdate taken from the clock instead of
\* the modification time of STATUS.md
projectsOf_StampNow(ws, names, now) ==
  LET present == SelectSeq([k \in 1..Len(names) |-> k], LAMBDA k : ~IsNull(ws.dirs[k]))
      scanned == [j \in 1..Len(present) |->
                    scanProject(names[present[j]], Val(ws.dirs[present[j]]), now)]
      counts == countTodoItems(Some(readText(ws.todoFile)))
  IN <<polymarketProject(iso(IF IsNull(ws.statusFile) THEN 0 ELSE now),
                         polyFreshnessHours(ws.statusFile, now), counts)>> \o scanned

\* the projects array after projects.unshift, for a workspace ws that does
\* not change during the run: ws.dirs[k] is null for a missing directory
projectsOf(ws, names, now) ==
  LET present == SelectSeq([k \in 1..Len(names) |-> k], LAMBDA k : ~IsNull(ws.dirs[k]))
      scanned == [j \in 1..Len(present) |->
                    scanProject(names[present[j]], Val(ws.dirs[present[j]]), now)]
      counts == countTodoItems(Some(readText(ws.todoFile)))
  IN <<polymarketProject(polyLatestUpdate(ws.statusFile),
                         polyFreshnessHours(ws.statusFile, now), counts)>> \o scanned

\* the document one run writes for workspace ws when the clock reads now
generate(ws, names, now) ==
  assemble(projectsOf(ws, names, now), parseGateway(safeExec(ws.gateway)), now)

-----------------------------------------------------------------------------
(* Specification SpecScore: the scoring engine on drawn inputs *)

TodoCounts(maxTotal) ==
  { c \in [total : 0..maxTotal, done : 0..maxTotal, open : 0..maxTotal] :
      c.done <= c.total /\ c.open = c.total - c.done }

HoursSet == { Null } \cup { Some(dt) : dt \in {0, 179, 180, 719, 720, 5000} }

IdleScore ==
  /\ scPc = "idle" /\ scKind = "scanned" /\ scHours = Null
  /\ scTodos = [total |-> 0, done |-> 0, open |-> 0]
  /\ scCommits = 0 /\ scStatus = FALSE /\ scProgress = 0 /\ scRoi = 0

IdleTodo ==
  /\ tdPc = "idle" /\ tdCall = "items" /\ tdArg = Null /\ tdDir = Null
  /\ tdText = <<>> /\ tdOut = [total |-> 0, done |-> 0, open |-> 0]

NoGitResult == [commits7d |-> 0, trend |-> <<>>, contributors7d |-> 0, confidence |-> "none"]

IdleGit ==
  /\ gitPc = "idle" /\ gitMarker = FALSE /\ gitI = 0 /\ gitCounts = <<>>
  /\ gitQueries = <<>> /\ gitOk = <<>> /\ gitResult = NoGitResult

IdleWalk ==
  /\ wPc = "idle" /\ wVersion = 2 /\ wMaxFiles = 1 /\ wRootReadable = FALSE
  /\ wNodes = <<>> /\ wStack = <<>> /\ wEntries = <<>> /\ wLatest = 0 /\ wCount = 0
  /\ wCapped = FALSE /\ wCounted = {} /\ wLastStep = "none"
  /\ wPrev = [latest |-> 0, count |-> 0]

IdleGen ==
  /\ gPc = "idle" /\ gDirs = <<>> /\ gPolyTodo = [total |-> 0, done |-> 0, open |-> 0]
  /\ gGateway = [running |-> FALSE, rpcOk |-> FALSE, lastRun |-> Null]
  /\ gIdx = 0 /\ gProjects = <<>> /\ gStatusFile = Null /\ gPolyLatest = Null
  /\ gData = Null /\ gFile = Null /\ gError = Null

NoWorkspace == [dirs |-> <<>>, statusFile |-> Null, todoFile |-> Null,
                gateway |-> [ok |-> FALSE, lines |-> <<>>]]

IdleTwin == twWs = NoWorkspace /\ twClock = 0 /\ twOut = <<>> /\ twChanged = FALSE

InitScore ==
  /\ IdleTodo /\ IdleGit /\ IdleWalk /\ IdleGen /\ IdleTwin
  /\ scPc = "input"
  /\ scKind \in {"scanned", "polymarket"}
  /\ scHours \in HoursSet
  /\ scTodos \in TodoCounts(MaxTodoTotal)
  /\ scCommits \in 0..MaxCommits
  /\ scStatus \in BOOLEAN
  /\ scProgress = 0
  /\ scRoi = 0

ScoreProject ==
  /\ scPc = "input" /\ scKind = "scanned"
  /\ LET freshness == classifyFreshness(scHours)
         progress == progressOf(scTodos, freshness, scCommits)
     IN /\ scProgress' = progress
        /\ scRoi' = roiScoreOf(progress, freshness, scCommits)
  /\ scPc' = "scored"
  /\ UNCHANGED <<scKind, scHours, scTodos, scCommits, scStatus>>
  /\ UNCHANGED <<todoVars, gitVars, walkVars, genVars, twinVars>>

ScorePolymarket ==
  /\ scPc = "input" /\ scKind = "polymarket"
  /\ scProgress' = polyProgress(scTodos)
  /\ scRoi' = polyRoi(scTodos)
  /\ scPc' = "scored"
  /\ UNCHANGED <<scKind, scHours, scTodos, scCommits, scStatus>>
  /\ UNCHANGED <<todoVars, gitVars, walkVars, genVars, twinVars>>

NextScore == ScoreProject \/ ScorePolymarket

SpecScore == InitScore /\ [][NextScore]_vars

-----------------------------------------------------------------------------
(* Specification SpecTodo: the checklist parser on drawn texts and listings *)

Pieces ==
  { <<"-", " ", "[", " ", "]">>, <<"-", " ", "[", "x", "]">>,
    <<"-", " ", "[", "X", "]">>, <<"-", " ", "[", "y", "]">>,
    <<"-", "[", "x", "]">>, <<" ">>, <<"a">>, <<"\n">>, <<"\r">> }

RECURSIVE Flatten(_)
Flatten(ps) == IF Len(ps) = 0 THEN <<>> ELSE ps[1] \o Flatten(Tail(ps))

SeqsUpTo(S, n) == UNION { [1..k -> S] : k \in 0..n }

Texts == { Flatten(ps) : ps \in SeqsUpTo(Pieces, MaxPieces) }

FileNames ==
  { <<"T", "O", "D", "O", ".", "m", "d">>,
    <<"t", "a", "s", "k", "s", ".", "M", "D">>,
    <<"n", "o", "t", "e", "s", ".", "m", "d">>,
    <<"t", "o", "d", "o", ".", "t", "x", "t">> }

FileContents ==
  { Null, Some(<<>>), Some(<<"-", " ", "[", "x", "]">>),
    Some(<<"-", " ", "[", " ", "]", " ", "a", "\n", "-", " ", "[", "X", "]">>),
    Some(<<"a", " ">>) }

Listings == SeqsUpTo([name : FileNames, content : FileContents], MaxTodoFiles)

InitTodo ==
  /\ IdleScore /\ IdleGit /\ IdleWalk /\ IdleGen /\ IdleTwin
  /\ tdPc = "input"
  /\ tdText = <<>>
  /\ tdOut = [total |-> 0, done |-> 0, open |-> 0]
  /\ \/ /\ tdCall = "items"
        /\ tdArg \in { Null } \cup { Some(t) : t \in Texts }
        /\ tdDir = Null
     \/ /\ tdCall = "project"
        /\ tdArg = Null
        /\ tdDir \in { Null } \cup { Some(l) : l \in Listings }

CountTodoItems ==
  /\ tdPc = "input" /\ tdCall = "items"
  /\ tdText' = (IF IsNull(tdArg) THEN <<>> ELSE Val(tdArg))
  /\ tdOut' = countTodoItems(tdArg)
  /\ tdPc' = "counted"
  /\ UNCHANGED <<tdCall, tdArg, tdDir>>
  /\ UNCHANGED <<scoreVars, gitVars, walkVars, genVars, twinVars>>

CountTodosInProject ==
  /\ tdPc = "input" /\ tdCall = "project"
  /\ tdText' = (IF IsNull(tdDir) THEN <<>> ELSE JoinLines(ChecklistTexts(Val(tdDir))))
  /\ tdOut' = countTodosInProject(tdDir)
  /\ tdPc' = "counted"
  /\ UNCHANGED <<tdCall, tdArg, tdDir>>
  /\ UNCHANGED <<scoreVars, gitVars, walkVars, genVars, twinVars>>

NextTodo == CountTodoItems \/ CountTodosInProject

SpecTodo == InitTodo /\ [][NextTodo]_vars

-----------------------------------------------------------------------------
(* Claims about the scoring engine, checked under SpecScore *)

ScoredScanned == scPc = "scored" /\ scKind = "scanned"
ScoredPolymarket == scPc = "scored" /\ scKind = "polymarket"

\* C1: for every scanned project and every combination of freshness bucket,
\* checklist counts and commits7d (up to MaxCommits), 10 <= roiScore <= 99.
C1_RoiClamped == ScoredScanned => (10 <= scRoi /\ scRoi <= 99)

\* the pathological commit count of the claim has been scored and clamped
C1_Witness == ScoredScanned /\ scCommits = 1000 /\ scRoi = 99

\* C2 as stated: every emitted project whose freshness is known (a scanned
\* project that observed a modification time, or the Polymarket project whose
\* STATUS.md exists) has 34 <= progress <= 100.
C2_AsStated ==
  /\ (ScoredScanned /\ ~IsNull(scHours)) => (34 <= scProgress /\ scProgress <= 100)
  /\ (ScoredPolymarket /\ scStatus) => (34 <= scProgress /\ scProgress <= 100)

\* C2 amended: every scanned project whose freshness is known has
\* 34 <= progress <= 100; the prepended Polymarket project's progress is its
\* checklist completion and is only bounded by 0 <= progress <= 100.
C2_ProgressBounds ==
  /\ (ScoredScanned /\ ~IsNull(scHours)) => (34 <= scProgress /\ scProgress <= 100)
  /\ ScoredPolymarket => (0 <= scProgress /\ scProgress <= 100)

\* a cold project without commits or checklist sits exactly on the floor
C2_Witness ==
  /\ ScoredScanned /\ ~IsNull(scHours) /\ scProgress = 34
  /\ scCommits = 0 /\ scTodos.total = 0

-----------------------------------------------------------------------------
(* Claims about the checklist parser, checked under SpecTodo *)

RECURSIVE SplitLines(_, _)
\* the lines of a text: maximal runs of characters between line terminators;
\* cur is the line being collected
SplitLines(md, cur) ==
  IF Len(md) = 0 THEN <<cur>>
  ELSE IF IsLineTerminator(Head(md)) THEN <<cur>> \o SplitLines(Tail(md), <<>>)
  ELSE SplitLines(Tail(md), Append(cur, Head(md)))

UncheckedBox == <<"-", " ", "[", " ", "]">>
CheckedBoxes == { <<"-", " ", "[", "x", "]">>, <<"-", " ", "[", "X", "]">> }

LinesStartingWith(md, prefixes) ==
  LET ls == SplitLines(md, <<>>)
  IN Cardinality({ i \in 1..Len(ls) : Len(ls[i]) >= 5 /\ SubSeq(ls[i], 1, 5) \in prefixes })

\* C8: for every checklist text (empty and absent input included) the counts
\* are non-negative, done <= total and open = total - done; the empty text
\* gives 0/0/0; total is the number of lines starting with a checkbox and
\* done the number of lines starting with a checked one.
C8_CountsConsistent ==
  tdPc = "counted" =>
    /\ tdOut.total >= 0 /\ tdOut.done >= 0 /\ tdOut.open >= 0
    /\ tdOut.done <= tdOut.total
    /\ tdOut.open = tdOut.total - tdOut.done
    /\ (tdText = <<>> => tdOut = [total |-> 0, done |-> 0, open |-> 0])
    /\ tdOut.total = LinesStartingWith(tdText, CheckedBoxes \cup {UncheckedBox})
    /\ tdOut.done = LinesStartingWith(tdText, CheckedBoxes)

\* a text with one checked and one open item has been counted
C8_Witness ==
  /\ tdPc = "counted" /\ tdCall = "items"
  /\ tdOut = [total |-> 2, done |-> 1, open |-> 1]

-----------------------------------------------------------------------------
(* Specification SpecGit: getGit7DayActivity, one step per command *)

OutLines == {"", "a", "b"}

Runs == [ok : BOOLEAN, lines : SeqsUpTo(OutLines, MaxOutLines)]

InitGit ==
  /\ IdleScore /\ IdleTodo /\ IdleWalk /\ IdleGen /\ IdleTwin
  /\ gitPc = "start"
  /\ gitMarker \in BOOLEAN
  /\ gitI = 6
  /\ gitCounts = <<>> /\ gitQueries = <<>> /\ gitOk = <<>>
  /\ gitResult = NoGitResult

\* the existsSync test on the .git entry
GitNoRepo ==
  /\ gitPc = "start" /\ ~gitMarker
  /\ gitResult' = noRepoActivity
  /\ gitPc' = "returned"
  /\ UNCHANGED <<gitMarker, gitI, gitCounts, gitQueries, gitOk>>
  /\ UNCHANGED <<scoreVars, todoVars, walkVars, genVars, twinVars>>

GitEnterLoop ==
  /\ gitPc = "start" /\ gitMarker
  /\ gitPc' = "loop"
  /\ UNCHANGED <<gitMarker, gitI, gitCounts, gitQueries, gitOk, gitResult>>
  /\ UNCHANGED <<scoreVars, todoVars, walkVars, genVars, twinVars>>

\* one iteration of for (let i = 6; i >= 0; i--)
GitBucket ==
  /\ gitPc = "loop" /\ gitI >= 0
  /\ \E run \in Runs :
       LET out == safeExec(run)
       IN /\ gitQueries' = Append(gitQueries, [after |-> gitI + 1, before |-> gitI])
          /\ gitOk' = Append(gitOk, run.ok)
          /\ IF out.threw
             THEN /\ gitPc' = "threw"
                  /\ UNCHANGED <<gitI, gitCounts>>
             ELSE /\ gitCounts' = Append(gitCounts, bucketCount(out))
                  /\ gitI' = gitI - 1
                  /\ gitPc' = "loop"
  /\ UNCHANGED <<gitMarker, gitResult>>
  /\ UNCHANGED <<scoreVars, todoVars, walkVars, genVars, twinVars>>

\* the author query, the sum and the return
GitAuthorsReturn ==
  /\ gitPc = "loop" /\ gitI < 0
  /\ \E run \in Runs :
       LET auth == safeExec(run)
       IN IF auth.threw
          THEN /\ gitPc' = "threw"
               /\ UNCHANGED gitResult
          ELSE /\ gitResult' = [commits7d |-> SumSeq(gitCounts), trend |-> gitCounts,
                                contributors7d |-> contributorCount(auth),
                                confidence |-> "high"]
               /\ gitPc' = "returned"
  /\ UNCHANGED <<gitMarker, gitI, gitCounts, gitQueries, gitOk>>
  /\ UNCHANGED <<scoreVars, todoVars, walkVars, genVars, twinVars>>

NextGit == GitNoRepo \/ GitEnterLoop \/ GitBucket \/ GitAuthorsReturn

SpecGit == InitGit /\ [][NextGit]_vars

\* C10: with a repository marker the probe never aborts whatever commands
\* fail; it issues the 7 day-bucket queries oldest first ((7,6) ... (1,0)) and
\* returns 7 non-negative counts in that order, 0 where the command failed,
\* commits7d equal to their sum, and confidence 'high'.
C10_ProbeNeverAborts ==
  /\ gitPc # "threw"
  /\ gitMarker /\ gitPc = "loop" =>
       /\ Len(gitCounts) = 6 - gitI
       /\ Len(gitQueries) = Len(gitCounts)
  /\ gitMarker /\ gitPc = "returned" =>
       /\ gitQueries = [k \in 1..7 |-> [after |-> 8 - k, before |-> 7 - k]]
       /\ Len(gitResult.trend) = 7
       /\ \A k \in 1..7 : /\ gitResult.trend[k] >= 0
                          /\ (~gitOk[k] => gitResult.trend[k] = 0)
       /\ gitResult.commits7d =
            gitResult.trend[1] + gitResult.trend[2] + gitResult.trend[3] + gitResult.trend[4]
            + gitResult.trend[5] + gitResult.trend[6] + gitResult.trend[7]
       /\ gitResult.confidence = "high"

\* the probe returned although the oldest and a middle bucket failed
C10_Witness ==
  /\ gitMarker /\ gitPc = "returned"
  /\ ~gitOk[1] /\ ~gitOk[4] /\ gitOk[7]
  /\ gitResult.trend[7] = 2 /\ gitResult.commits7d = 2

-----------------------------------------------------------------------------
(* Specification SpecWalk: latestMtimeRecursive, one step per worklist pop *)
(* and per directory entry                                                 *)

EntryKinds ==
  { [name |-> "f", isDir |-> FALSE, statOk |-> TRUE, mtime |-> 1, readable |-> FALSE],
    [name |-> "f", isDir |-> FALSE, statOk |-> TRUE, mtime |-> 2, readable |-> FALSE],
    [name |-> "f", isDir |-> FALSE, statOk |-> FALSE, mtime |-> 3, readable |-> FALSE],
    [name |-> "f", isDir |-> TRUE, statOk |-> TRUE, mtime |-> 1, readable |-> TRUE],
    [name |-> "f", isDir |-> TRUE, statOk |-> TRUE, mtime |-> 2, readable |-> FALSE],
    [name |-> ".git", isDir |-> TRUE, statOk |-> TRUE, mtime |-> 3, readable |-> TRUE],
    [name |-> "node_modules", isDir |-> TRUE, statOk |-> TRUE, mtime |-> 3, readable |-> TRUE],
    [name |-> ".next", isDir |-> TRUE, statOk |-> TRUE, mtime |-> 3, readable |-> TRUE] }

WithParent(k, p) ==
  [parent |-> p, name |-> k.name, isDir |-> k.isDir, statOk |-> k.statOk,
   mtime |-> k.mtime, readable |-> k.readable]

Trees ==
  UNION { { t \in [1..n -> { WithParent(k, p) : k \in EntryKinds, p \in 0..(n - 1) }] :
              \A i \in 1..n : /\ t[i].parent < i
                              /\ (t[i].parent # 0 => t[t[i].parent].isDir) }
          : n \in 0..MaxEntries }

InitWalk ==
  /\ IdleScore /\ IdleTodo /\ IdleGit /\ IdleGen /\ IdleTwin
  /\ wPc = "loop"
  /\ wVersion \in {1, 2}
  /\ wMaxFiles \in 1..MaxCap
  /\ wRootReadable \in BOOLEAN
  /\ wNodes \in Trees
  /\ wStack = <<0>>
  /\ wEntries = <<>>
  /\ wLatest = 0 /\ wCount = 0 /\ wCapped = FALSE
  /\ wCounted = {}
  /\ wLastStep = "none"
  /\ wPrev = [latest |-> 0, count |-> 0]

WalkConst == <<wVersion, wMaxFiles, wRootReadable, wNodes>>

\* stack.pop() and readdirSync(cur); a failing readdirSync continues the loop
WalkPop ==
  /\ wPc = "loop" /\ wStack # <<>>
  /\ LET cur == wStack[Len(wStack)]
         rest == SubSeq(wStack, 1, Len(wStack) - 1)
     IN /\ wStack' = rest
        /\ IF Readable(wNodes, wRootReadable, cur)
           THEN /\ wEntries' = Children(wNodes, cur)
                /\ wPc' = IF Children(wNodes, cur) = <<>> THEN "loop" ELSE "entries"
                /\ wLastStep' = "popListed"
           ELSE /\ wEntries' = <<>>
                /\ wPc' = "loop"
                /\ wLastStep' = "popUnreadable"
  /\ wPrev' = [latest |-> wLatest, count |-> wCount]
  /\ UNCHANGED <<wLatest, wCount, wCapped, wCounted, WalkConst>>
  /\ UNCHANGED <<scoreVars, todoVars, gitVars, genVars, twinVars>>

\* one iteration of for (const e of entries)
WalkEntry ==
  /\ wPc = "entries" /\ wEntries # <<>>
  /\ LET e == Head(wEntries)
         n == wNodes[e]
         more == Tail(wEntries)
         next == IF more = <<>> THEN "loop" ELSE "entries"
     IN IF n.name \in SkipNames(wVersion)
        THEN /\ wEntries' = more
             /\ wPc' = next
             /\ UNCHANGED <<wLatest, wCount, wCapped, wCounted, wStack>>
        ELSE LET count == IF n.statOk THEN wCount + 1 ELSE wCount
             IN /\ wLatest' = (IF n.statOk THEN Max2(wLatest, n.mtime) ELSE wLatest)
                /\ wCount' = count
                /\ wCounted' = (IF n.statOk THEN wCounted \cup {e} ELSE wCounted)
                /\ wStack' = (IF n.isDir THEN Append(wStack, e) ELSE wStack)
                /\ IF capReached(count, wMaxFiles)
                   THEN /\ wCapped' = TRUE
                        /\ wPc' = "returned"
                        /\ wEntries' = more
                   ELSE /\ wCapped' = FALSE
                        /\ wPc' = next
                        /\ wEntries' = more
  /\ wLastStep' = "entry"
  /\ wPrev' = [latest |-> wLatest, count |-> wCount]
  /\ UNCHANGED WalkConst
  /\ UNCHANGED <<scoreVars, todoVars, gitVars, genVars, twinVars>>

\* the worklist is empty: return {latest, count, capped: false}
WalkReturn ==
  /\ wPc = "loop" /\ wStack = <<>>
  /\ wPc' = "returned"
  /\ wCapped' = FALSE
  /\ wLastStep' = "return"
  /\ wPrev' = [latest |-> wLatest, count |-> wCount]
  /\ UNCHANGED <<wStack, wEntries, wLatest, wCount, wCounted, WalkConst>>
  /\ UNCHANGED <<scoreVars, todoVars, gitVars, genVars, twinVars>>

NextWalk == WalkPop \/ WalkEntry \/ WalkReturn

SpecWalk == InitWalk /\ [][NextWalk]_vars

-----------------------------------------------------------------------------
(* Claims about the filesystem scanner, checked under SpecWalk *)

RECURSIVE Listed(_, _, _, _)
\* entry e is listed by a readdirSync the uncapped walk performs: every
\* directory above it is read successfully and none of them is skipped by name
Listed(nodes, rootReadable, version, e) ==
  LET p == nodes[e].parent
  IN IF p = 0 THEN rootReadable
     ELSE /\ nodes[p].isDir /\ nodes[p].readable
          /\ nodes[p].name \notin SkipNames(version)
          /\ Listed(nodes, rootReadable, version, p)

\* the entries an uncapped walk counts
Countable(nodes, rootReadable, version) ==
  { e \in 1..Len(nodes) : /\ Listed(nodes, rootReadable, version, e)
                           /\ nodes[e].name \notin SkipNames(version)
                           /\ nodes[e].statOk }

WalkSafe ==
  /\ wCount <= wMaxFiles
  /\ (wPc = "returned" /\ ~wCapped) => (wStack = <<>> /\ wCount < wMaxFiles)
  /\ (wPc = "returned" /\ wCapped) => wCount = wMaxFiles

\* C3 as stated: a tree containing more entries than maxFiles is reported
\* capped with count = maxFiles; count never exceeds maxFiles; capped=false
\* is returned only from an empty worklist with count < maxFiles.
C3_AsStated ==
  /\ WalkSafe
  /\ (wPc = "returned" /\ Len(wNodes) > wMaxFiles) => (wCapped /\ wCount = wMaxFiles)

\* C3 amended: a tree in which the walk can count more than maxFiles entries
\* (entries skipped by name, entries whose stat fails and everything below a
\* skipped or unreadable directory are not counted) is reported capped with
\* count = maxFiles; count never exceeds maxFiles; capped=false is returned
\* only from an empty worklist with count < maxFiles.
C3_CapExact ==
  /\ WalkSafe
  /\ (wPc = "returned" /\ Cardinality(Countable(wNodes, wRootReadable, wVersion)) > wMaxFiles)
       => (wCapped /\ wCount = wMaxFiles)

\* the walk stopped at the cap with directories still on the worklist
C3_Witness ==
  /\ wPc = "returned" /\ wCapped /\ wCount = wMaxFiles
  /\ Cardinality(Countable(wNodes, wRootReadable, wVersion)) > wMaxFiles
  /\ wStack # <<>>

RECURSIVE MaxMtime(_, _)
MaxMtime(nodes, S) ==
  IF S = {} THEN 0
  ELSE LET e == CHOOSE x \in S : TRUE
       IN Max2(nodes[e].mtime, MaxMtime(nodes, S \ {e}))

\* C9: at every step latest is the maximum modification time over exactly
\* the entries counted so far (0 if none); entries named .git, node_modules
\* or .next are never counted, never contribute to latest and are never on
\* the worklist; popping an unreadable directory changes neither latest nor
\* count.
C9_LatestOverCounted ==
  /\ wCount = Cardinality(wCounted)
  /\ wLatest = MaxMtime(wNodes, wCounted)
  /\ \A e \in wCounted : wNodes[e].name \notin {".git", "node_modules", ".next"}
  /\ \A k \in 1..Len(wStack) :
       wStack[k] # 0 => wNodes[wStack[k]].name \notin {".git", "node_modules", ".next"}
  /\ wLastStep = "popUnreadable" => (wLatest = wPrev.latest /\ wCount = wPrev.count)

-----------------------------------------------------------------------------
(* Specification SpecGen: one run of the generator, statement by statement *)

projectNames ==
  <<"mission-control-dashboard", "nightshift", "overnight", "overnight_ops", "papertrades">>

OkRun(lines) == [ok |-> TRUE, lines |-> lines]
FailRun == [ok |-> FALSE, lines |-> <<"a">>]

QuietRepo == [buckets |-> [k \in 1..7 |-> OkRun(<<>>)], auth |-> OkRun(<<>>)]
BrokenRepo == [buckets |-> [k \in 1..7 |-> FailRun], auth |-> FailRun]
ActiveRepo ==
  [buckets |-> [k \in 1..7 |-> IF k >= 6 THEN OkRun(<<"a", "b">>) ELSE OkRun(<<>>)],
   auth |-> OkRun(<<"a", "a">>)]
BusyRepo == [buckets |-> [k \in 1..7 |-> OkRun(<<"a", "b">>)], auth |-> OkRun(<<"a", "b">>)]

TodoFile(content) == [name |-> <<"T", "O", "D", "O", ".", "m", "d">>, content |-> content]
OneDone == Some(<<"-", " ", "[", "x", "]">>)
OneOfTwo == Some(<<"-", " ", "[", " ", "]", " ", "a", "\n", "-", " ", "[", "X", "]">>)

\* what a project directory can hold: an unreadable directory, a stale one
\* whose git commands all fail, a fresh one without repository but with a
\* finished checklist, an active repository one tick short of six hours old,
\* a busy one whose scan was capped
DirStates ==
  { [snap |-> [latest |-> 0, count |-> 0, capped |-> FALSE], repo |-> Null, listing |-> Null],
    [snap |-> [latest |-> Epoch0 - 800, count |-> 2, capped |-> FALSE],
     repo |-> Some(BrokenRepo), listing |-> Some(<<>>)],
    [snap |-> [latest |-> Epoch0 - 10, count |-> 3, capped |-> FALSE],
     repo |-> Null, listing |-> Some(<<TodoFile(OneDone)>>)],
    [snap |-> [latest |-> Epoch0 - 179, count |-> 3, capped |-> FALSE],
     repo |-> Some(ActiveRepo), listing |-> Some(<<TodoFile(OneOfTwo)>>)],
    [snap |-> [latest |-> Epoch0 - 200, count |-> MaxCap, capped |-> TRUE],
     repo |-> Some(BusyRepo), listing |-> Some(<<TodoFile(Null)>>)] }

StatusFiles == { Null, Some(Epoch0 - 10) }

TodoFileContents == { Null, OneDone, OneOfTwo }

GatewayRuns ==
  { [ok |-> FALSE, lines |-> <<"a">>],
    [ok |-> FALSE, lines |-> <<"Runtime: running", "last run time 09:00">>],
    [ok |-> TRUE, lines |-> <<"Runtime: running", "RPC probe: ok", "last run time 09:00", "">>] }

Subsequences(s) ==
  { SelectSeq(s, LAMBDA x : x \in S) : S \in SUBSET { s[k] : k \in 1..Len(s) } }

InitGen ==
  /\ IdleScore /\ IdleTodo /\ IdleGit /\ IdleWalk /\ IdleTwin
  /\ gPc = "start"
  /\ gDirs = <<>>
  /\ gPolyTodo = [total |-> 0, done |-> 0, open |-> 0]
  /\ gGateway = [running |-> FALSE, rpcOk |-> FALSE, lastRun |-> Null]
  /\ gIdx = 1
  /\ gProjects = <<>>
  /\ gStatusFile \in StatusFiles
  /\ gPolyLatest = Null
  /\ gData = Null /\ gFile = Null /\ gError = Null

\* lines 93-109: the directories that exist, the Polymarket checklist, the
\* gateway probe
GenProbe ==
  /\ gPc = "start"
  /\ gDirs' \in Subsequences(projectNames)
  /\ \E content \in TodoFileContents : gPolyTodo' = countTodoItems(Some(readText(content)))
  /\ \E run \in GatewayRuns : gGateway' = parseGateway(safeExec(run))
  /\ gPc' = IF gDirs' = <<>> THEN "unshift" ELSE "scan"
  /\ UNCHANGED <<gIdx, gProjects, gStatusFile, gPolyLatest, gData, gFile, gError>>
  /\ UNCHANGED <<scoreVars, todoVars, gitVars, walkVars, twinVars>>

\* lines 111-166: the map callback on the next existing directory
GenScanProject ==
  /\ gPc = "scan" /\ gIdx <= Len(gDirs)
  /\ \E d \in DirStates : gProjects' = Append(gProjects, scanProject(gDirs[gIdx], d, Epoch0))
  /\ gIdx' = gIdx + 1
  /\ gPc' = IF gIdx = Len(gDirs) THEN "unshift" ELSE "scan"
  /\ UNCHANGED <<gDirs, gPolyTodo, gGateway, gStatusFile, gPolyLatest, gData, gFile, gError>>
  /\ UNCHANGED <<scoreVars, todoVars, gitVars, walkVars, twinVars>>

\* line 172: fs.existsSync(polymarketStatusFile) ? ... : 0
GenPolyExists1 ==
  /\ gPc = "unshift"
  /\ IF IsNull(gStatusFile)
     THEN /\ gPolyLatest' = iso(0)
          /\ gPc' = "exists2"
     ELSE /\ gPc' = "stat1"
          /\ UNCHANGED gPolyLatest
  /\ UNCHANGED <<gDirs, gPolyTodo, gGateway, gIdx, gProjects, gStatusFile, gData, gFile, gError>>
  /\ UNCHANGED <<scoreVars, todoVars, gitVars, walkVars, twinVars>>

\* line 172: fs.statSync(polymarketStatusFile).mtimeMs; throws on a missing file
GenPolyStat1 ==
  /\ gPc = "stat1"
  /\ IF IsNull(gStatusFile)
     THEN /\ gError' = Some("ENOENT: statSync STATUS.md")
          /\ gPc' = "crashed"
          /\ UNCHANGED gPolyLatest
     ELSE /\ gPolyLatest' = iso(Val(gStatusFile))
          /\ gPc' = "exists2"
          /\ UNCHANGED gError
  /\ UNCHANGED <<gDirs, gPolyTodo, gGateway, gIdx, gProjects, gStatusFile, gData, gFile>>
  /\ UNCHANGED <<scoreVars, todoVars, gitVars, walkVars, twinVars>>

\* line 173: the second fs.existsSync(polymarketStatusFile); a missing file
\* gives freshnessHours null and the object is prepended
GenPolyExists2 ==
  /\ gPc = "exists2"
  /\ IF IsNull(gStatusFile)
     THEN /\ gProjects' = <<polymarketProject(gPolyLatest, Null, gPolyTodo)>> \o gProjects
          /\ gPc' = "assemble"
     ELSE /\ gPc' = "stat2"
          /\ UNCHANGED gProjects
  /\ UNCHANGED <<gDirs, gPolyTodo, gGateway, gIdx, gStatusFile, gPolyLatest, gData, gFile, gError>>
  /\ UNCHANGED <<scoreVars, todoVars, gitVars, walkVars, twinVars>>

\* line 173: the second statSync, then lines 174-197
GenPolyStat2 ==
  /\ gPc = "stat2"
  /\ IF IsNull(gStatusFile)
     THEN /\ gError' = Some("ENOENT: statSync STATUS.md")
          /\ gPc' = "crashed"
          /\ UNCHANGED gProjects
     ELSE /\ gProjects' = <<polymarketProject(gPolyLatest,
                               polyFreshnessHours(gStatusFile, Epoch0), gPolyTodo)>> \o gProjects
          /\ gPc' = "assemble"
          /\ UNCHANGED gError
  /\ UNCHANGED <<gDirs, gPolyTodo, gGateway, gIdx, gStatusFile, gPolyLatest, gData, gFile>>
  /\ UNCHANGED <<scoreVars, todoVars, gitVars, walkVars, twinVars>>

\* another process creates, touches or removes STATUS.md while the object
\* literal of projects.unshift is being evaluated
StatusFileChanges ==
  /\ gPc \in {"stat1", "exists2", "stat2"}
  /\ gStatusFile' \in StatusFiles \ {gStatusFile}
  /\ UNCHANGED <<gPc, gDirs, gPolyTodo, gGateway, gIdx, gProjects, gPolyLatest, gData, gFile, gError>>
  /\ UNCHANGED <<scoreVars, todoVars, gitVars, walkVars, twinVars>>

\* lines 199-265
GenAssemble ==
  /\ gPc = "assemble"
  /\ gData' = Some(assemble(gProjects, gGateway, Epoch0))
  /\ gPc' = "write"
  /\ UNCHANGED <<gDirs, gPolyTodo, gGateway, gIdx, gProjects, gStatusFile, gPolyLatest, gFile, gError>>
  /\ UNCHANGED <<scoreVars, todoVars, gitVars, walkVars, twinVars>>

\* lines 267-269: mkdirSync and writeFileSync; either may throw (the output
\* directory cannot be created or written)
GenWrite ==
  /\ gPc = "write"
  /\ \E ok \in BOOLEAN :
       IF ok
       THEN /\ gFile' = gData
            /\ gPc' = "done"
            /\ UNCHANGED gError
       ELSE /\ gError' = Some("EACCES: write live-metrics.json")
            /\ gPc' = "crashed"
            /\ UNCHANGED gFile
  /\ UNCHANGED <<gDirs, gPolyTodo, gGateway, gIdx, gProjects, gStatusFile, gPolyLatest, gData>>
  /\ UNCHANGED <<scoreVars, todoVars, gitVars, walkVars, twinVars>>

NextGen ==
  \/ GenProbe \/ GenScanProject
  \/ GenPolyExists1 \/ GenPolyStat1 \/ GenPolyExists2 \/ GenPolyStat2
  \/ StatusFileChanges
  \/ GenAssemble \/ GenWrite

SpecGen == InitGen /\ [][NextGen]_vars

-----------------------------------------------------------------------------
(* Claims about one run of the generator, checked under SpecGen *)

\* C4: whatever is missing or failing (project directories, STATUS.md,
\* TODO.md, the gateway command, git commands), no error escapes the
\* generator as a hard failure, and a finished run has written the file.
C4_AlwaysCompletes ==
  /\ gPc # "crashed"
  /\ IsNull(gError)
  /\ gPc = "done" => ~IsNull(gFile)

\* C6: priorityModules holds the min(3, n) projects of highest roiScore among
\* all n projects (Polymarket Bot included), in non-increasing roiScore order
\* with ranks 1, 2, 3; no project left out has a roiScore strictly greater
\* than an included one.
C6_TopThreeByRoi ==
  ~IsNull(gData) =>
    LET pm == Val(gData).priorityModules
        ps == Val(gData).projects
        n == Len(ps)
    IN /\ n >= 1
       /\ \E k \in 1..n : ps[k].id = "polymarket"
       /\ Len(pm) = Min2(3, n)
       /\ \A k \in 1..Len(pm) : pm[k].rank = k
       /\ \A k \in 1..(Len(pm) - 1) : pm[k].roiScore >= pm[k + 1].roiScore
       /\ \A j, k \in 1..Len(pm) : j # k => pm[j].id # pm[k].id
       /\ \A k \in 1..Len(pm) :
            \E i \in 1..n : ps[i].id = pm[k].id /\ ps[i].roiScore = pm[k].roiScore
       /\ \A i \in 1..n :
            (\A k \in 1..Len(pm) : pm[k].id # ps[i].id) =>
              \A k \in 1..Len(pm) : ps[i].roiScore <= pm[k].roiScore

\* six projects were ranked, the three modules have three different scores
\* and Polymarket Bot did not make the list
C6_Witness ==
  /\ gPc = "done" /\ ~IsNull(gFile)
  /\ Len(Val(gFile).projects) = 6
  /\ Val(gFile).priorityModules[1].roiScore > Val(gFile).priorityModules[2].roiScore
  /\ Val(gFile).priorityModules[2].roiScore > Val(gFile).priorityModules[3].roiScore
  /\ \A k \in 1..3 : Val(gFile).priorityModules[k].id # "polymarket"

-----------------------------------------------------------------------------
(* Specification SpecTwin: the generator run twice in succession *)

Workspaces ==
  { w \in [dirs : [1..Len(projectNames) -> { Null } \cup { Some(d) : d \in DirStates }],
           statusFile : StatusFiles,
           todoFile : TodoFileContents,
           gateway : GatewayRuns] :
      Cardinality({ k \in 1..Len(projectNames) : ~IsNull(w.dirs[k]) }) <= MaxTwinDirs }

InitTwin ==
  /\ IdleScore /\ IdleTodo /\ IdleGit /\ IdleWalk /\ IdleGen
  /\ twWs \in Workspaces
  /\ twClock = Epoch0
  /\ twOut = <<>>
  /\ twChanged = FALSE

\* one complete run: the clock has advanced by at most MaxTick, the document
\* is written, or null is recorded when the write throws
TwinRun ==
  /\ Len(twOut) < 2
  /\ \E now \in twClock..(twClock + MaxTick) :
       /\ twClock' = now
       /\ \E ok \in BOOLEAN :
            twOut' = Append(twOut, IF ok THEN Some(generate(twWs, projectNames, now)) ELSE Null)
  /\ UNCHANGED <<twWs, twChanged>>
  /\ UNCHANGED <<scoreVars, todoVars, gitVars, walkVars, genVars>>

\* between the runs somebody runs git init in a project directory that had
\* no repository: the directory gains a .git entry and no commits
TwinGitInit ==
  /\ Len(twOut) = 1 /\ ~twChanged
  /\ \E k \in 1..Len(projectNames) :
       /\ ~IsNull(twWs.dirs[k])
       /\ IsNull(Val(twWs.dirs[k]).repo)
       /\ twWs' = [twWs EXCEPT !.dirs[k] =
                     Some([Val(twWs.dirs[k]) EXCEPT !.repo = Some(QuietRepo)])]
  /\ twChanged' = TRUE
  /\ UNCHANGED <<twClock, twOut>>
  /\ UNCHANGED <<scoreVars, todoVars, gitVars, walkVars, genVars>>

NextTwin == TwinRun \/ TwinGitInit

SpecTwin == InitTwin /\ [][NextTwin]_vars

-----------------------------------------------------------------------------
(* Claims about two runs, checked under SpecTwin *)

BothWritten == Len(twOut) = 2 /\ ~IsNull(twOut[1]) /\ ~IsNull(twOut[2])
FirstDoc == Val(twOut[1])
SecondDoc == Val(twOut[2])

\* C5 as stated: two runs against an unchanged workspace, at different clock
\* readings, write identical projects arrays, and documents that differ in
\* nothing but generatedAt.
C5_AsStated ==
  (BothWritten /\ ~twChanged) =>
    /\ FirstDoc.projects = SecondDoc.projects
    /\ [FirstDoc EXCEPT !.generatedAt = 0] = [SecondDoc EXCEPT !.generatedAt = 0]

\* the fields of a project that are not computed from the clock
ClockFree(p) ==
  IF p.id = "polymarket" THEN [p EXCEPT !.freshnessHours = Null]
  ELSE [id |-> p.id, name |-> p.name, latestUpdate |-> p.latestUpdate,
        fileSignals |-> p.fileSignals, confidence |-> p.confidence,
        trend7d |-> p.trend7d, commits7d |-> p.stats.commits7d,
        contributors7d |-> p.stats.contributors7d, todoOpen |-> p.stats.todoOpen,
        action |-> p.action]

\* C5 amended: two runs against an unchanged workspace write projects arrays
\* of the same length and order that agree on every field not computed from
\* the clock (id, name, latestUpdate, fileSignals, confidence, trend7d, the
\* commit, contributor and TODO stats, actions, and all of the Polymarket
\* project but freshnessHours); freshnessHours, and health, progress,
\* roiScore and timeline of scanned projects, agree whenever both readings
\* give every project the same health and the same rounded freshnessHours.
C5_ClockFreeFieldsAgree ==
  (BothWritten /\ ~twChanged) =>
    LET ps == FirstDoc.projects
        qs == SecondDoc.projects
    IN /\ Len(ps) = Len(qs)
       /\ \A k \in 1..Len(ps) : ClockFree(ps[k]) = ClockFree(qs[k])
       /\ (\A k \in 1..Len(ps) : /\ ps[k].health = qs[k].health
                                  /\ ps[k].freshnessHours = qs[k].freshnessHours)
            => ps = qs

\* the second run, one tick later, moved a scanned project from hot to warm
C5_Witness ==
  /\ BothWritten /\ ~twChanged
  /\ FirstDoc.generatedAt # SecondDoc.generatedAt
  /\ \E k \in 1..Len(FirstDoc.projects) :
       /\ FirstDoc.projects[k].health = "hot"
       /\ SecondDoc.projects[k].health = "warm"
       /\ FirstDoc.projects[k].roiScore # SecondDoc.projects[k].roiScore

\* the two projects arrays differ in nothing but confidence levels
DifferOnlyInConfidence(ps, qs) ==
  /\ Len(ps) = Len(qs)
  /\ \A k \in 1..Len(ps) : [ps[k] EXCEPT !.confidence = "any"] = [qs[k] EXCEPT !.confidence = "any"]

\* C7 as stated: two runs that differ only in the confidence level of the
\* projects carry the same confidence tag on each of the four digest entries.
C7_AsStated ==
  (BothWritten /\ DifferOnlyInConfidence(FirstDoc.projects, SecondDoc.projects)) =>
    \A k \in 1..4 : FirstDoc.digest[k].confidence = SecondDoc.digest[k].confidence

\* a project of highest roiScore, the first such in the projects array
IsTopProject(ps, p) ==
  \E i \in 1..Len(ps) :
    /\ ps[i] = p
    /\ \A j \in 1..Len(ps) : ps[j].roiScore <= p.roiScore
    /\ \A j \in 1..(i - 1) : ps[j].roiScore < p.roiScore

\* C7 amended: the Gateway Runtime, Projects Hot/Warm and Gateway Last Task
\* Run entries carry confidence tags that do not depend on project
\* confidence ('high', 'medium', and 'high' or 'low' by whether a last-run
\* time was found); the Top ROI Project entry carries the confidence of the
\* top-ranked project.
C7_DigestConfidence ==
  /\ \A r \in 1..Len(twOut) :
       ~IsNull(twOut[r]) =>
         LET doc == Val(twOut[r])
         IN /\ Len(doc.digest) = 4
            /\ doc.digest[1].confidence = "high"
            /\ doc.digest[3].confidence = "medium"
            /\ doc.digest[4].confidence = (IF IsNull(doc.digest[4].value) THEN "low" ELSE "high")
            /\ \E p \in { doc.projects[i] : i \in 1..Len(doc.projects) } :
                 /\ IsTopProject(doc.projects, p)
                 /\ doc.digest[2].value = Some(<<p.name, p.roiScore>>)
                 /\ doc.digest[2].confidence = p.confidence
  /\ (BothWritten /\ DifferOnlyInConfidence(FirstDoc.projects, SecondDoc.projects)) =>
       \A k \in {1, 3, 4} : FirstDoc.digest[k].confidence = SecondDoc.digest[k].confidence

\* git init in the top project's directory turned its confidence, and with
\* it the tag of the Top ROI Project entry, from low to high
C7_Witness ==
  /\ BothWritten /\ twChanged
  /\ DifferOnlyInConfidence(FirstDoc.projects, SecondDoc.projects)
  /\ FirstDoc.digest[2].confidence = "low"
  /\ SecondDoc.digest[2].confidence = "high"

=============================================================================
